---- MODULE Spec2Model ----
(***************************************************************************)
(* A model of rbxts-neutron: the Neutron core (provider registry, start    *)
(* flag, awaitStart / onStart queues), the NeutronLifecycle registry and   *)
(* the endpoint namer of the net module.                                   *)
(*                                                                         *)
(* Execution model: one logical thread of control per environment with     *)
(* cooperative tasks.  task.spawn(f) runs f at once, inside the spawner,   *)
(* until f returns or yields.  A loop that spawns or calls user code is    *)
(* therefore modelled one iteration per step, and the calls that the user  *)
(* code makes are the ordinary actions, taken between two iterations.      *)
(***************************************************************************)
EXTENDS Integers, Sequences, FiniteSets, TLC

VARIABLES
    \* ---- core (src/unnamed/part_000) ----
    started,            \* let started
    awaitStartThreads,  \* const awaitStartThreads: thread[]
    awaitCallbacks,     \* const awaitCallbacks: (() => void)[]
    provider,           \* providerClass[PROVIDER_KEY], 0 is undefined
    provPc,             \* where the decoration of each class stands
    instOf,             \* the instance `new providerClass()` made for the class
    startPc,            \* position of the (first) start call
    startIdx,           \* index of the forEach that start is running
    tstate,             \* each thread: "ready" or "parked" (in coroutine.yield)
    parks,              \* history: how often the thread yielded in awaitStart
    resumes,            \* history: how often start resumed the thread
    passed,             \* history: how often the callback was given to onStart
    ran,                \* history: how often the callback was spawned
    last,               \* the most recent call and how it ended
    \* ---- lifecycle (src/src/lifecycle.ts), one NeutronLifecycle object ----
    behavior,           \* the LifecycleBehavior given to the constructor
    callbacks,          \* private callbacks: CallbackItem<T>[]
    nextReg,            \* history: ordinal of the next register call
    firePc,             \* position of the fire call in progress
    fireIdx,            \* index of fire's loop over callbacks
    fireStart,          \* history: the entries registered when the fire began
    invoked,            \* history: the entries this fire invoked, in order
    mutated,            \* history: register/unregister ran during this fire
    dupSeen,            \* history: a callback was registered while registered
    running,            \* registration whose callback is executing now, 0 if none
    suspended,          \* registrations whose callback, invoked by this fire, has yielded
    \* ---- lifecycle meta-listeners (src/src/lifecycle.ts) ----
    onRegisteredCallbacks,    \* listener functions, in array order
    onUnregisteredCallbacks,  \* listener functions, in array order
    notifyPc,           \* "idle", or the call whose listener loop is running
    notifyIdx,          \* index of the listener loop
    notifyArg,          \* callback handed to the listeners, 0 outside a loop
    allIdx,             \* index of unregisterAll's loop over callbacks
    cancelFns,          \* the cleanup functions returned so far: <<list, listener>>
    notified,           \* history: <<listener, callback>> invocations of the running call
    cancelledInFlight,  \* history: a subscription was cancelled during the loop
    subscribedInFlight, \* history: a listener subscribed during the loop
    \* ---- net (src/src/net.ts), one server and one client ----
    isStudio,           \* RunService.IsStudio()
    decl,               \* the declared endpoints: call-site fingerprint, name argument
    serverSeed,         \* const seed on the server, 0 before the module has run
    seedAttr,           \* attribute "s" as the client sees it
    clientSeed,         \* const seed on the client, 0 before awaitSeedAttr returned
    sNames,             \* networkNames on the server
    cNames,             \* networkNames on the client
    sFinal,             \* remote.Name of each endpoint constructed on the server
    cFinal,             \* name each endpoint constructed on the client looks up
    clientPc,           \* the client's module: "unloaded", "polling" (in awaitSeedAttr), "ready"
    attrValue,          \* attribute "s" on the client's copy of script, 0 when undefined
    publishes,          \* history: how often the server has set attribute "s"
    waited,             \* history: a poll of the client found no attribute
    \* ---- net events on the server (src/src/net.ts) ----
    connected,          \* Players.GetPlayers(), as a set
    fired,              \* the most recent server-side fire: event class and target
    delivered,          \* history: FireClient calls of that fire, per player
    \* ---- net functions (src/src/net.ts), one server and one client ----
    fnClass,            \* the class of the function constructed: "none" before
    fnCallbacks,        \* OnServerInvoke and OnClientInvoke of each machine's RemoteFunction
    fnCall,             \* the most recent call of handle or invoke
    invocation,         \* the invocation sent by invoke: status, destination, what the handler receives
    promise,            \* the Promise invoke returned: "none", "pending", "resolved", "rejected"
    callerPc,           \* the task that calls invoke: "idle", "past", "awaiting", "resumed"
    \* ---- methods bound by the Lifecycle decorator (src/src/lifecycle.ts) ----
    fireArgs,           \* the arguments of the fire under way
    methodCall,         \* the most recent invocation of a bound callback
    \* ---- subscriptions of meta-listeners (src/src/lifecycle.ts) ----
    subs                \* history: one entry per onRegistered / onUnregistered call

coreState == <<started, awaitStartThreads, awaitCallbacks, provider, provPc,
               instOf, startPc, startIdx, tstate, parks, resumes,
               passed, ran>>

lcVars == <<behavior, callbacks, nextReg, firePc, fireIdx, fireStart, invoked,
            mutated, dupSeen, running, suspended>>

mlVars == <<onRegisteredCallbacks, onUnregisteredCallbacks, notifyPc, notifyIdx,
            notifyArg, allIdx, cancelFns, notified, cancelledInFlight, subscribedInFlight>>

netVars == <<isStudio, decl, serverSeed, seedAttr, clientSeed, sNames, cNames,
             sFinal, cFinal, clientPc, attrValue, publishes, waited>>

evVars == <<connected, fired, delivered>>

fnVars == <<fnClass, fnCallbacks, fnCall, invocation, promise, callerPc>>

decVars == <<fireArgs, methodCall>>

subVars == <<subs>>

vars == <<coreState, last, lcVars, mlVars, netVars, evVars, fnVars, decVars, subVars>>

OnlyCore == UNCHANGED <<lcVars, mlVars, netVars, evVars, fnVars, decVars, subVars>>
OnlyLifecycle == UNCHANGED <<coreState, netVars, evVars, fnVars, decVars, subVars>>
OnlyNet == UNCHANGED <<coreState, last, lcVars, mlVars, evVars, fnVars, decVars, subVars>>
OnlyEvents == UNCHANGED <<coreState, last, lcVars, mlVars, netVars, fnVars, decVars, subVars>>
OnlyFunctions == UNCHANGED <<coreState, last, lcVars, mlVars, netVars, evVars, decVars, subVars>>
OnlyDecorator == UNCHANGED <<coreState, netVars, evVars, fnVars, subVars>>
OnlySubscriptions == UNCHANGED <<coreState, netVars, evVars, fnVars, decVars>>

----------------------------------------------------------------------------
\* Bounds of the model.
MaxClasses == 2
MaxThreads == 1
MaxCallbacks == 2
MaxOnStartCalls == 2
MaxLifecycleCallbacks == 3
MaxRegistrations == 3
MaxFireRegistrations == 2
MaxListeners == 2
MaxSubscriptions == 3
MaxEndpoints == 3
MaxSeed == 2
MaxPlayers == 3
MaxHandlers == 1
MaxArgs == 2

Classes == 1..MaxClasses
Threads == 1..MaxThreads
StartCallbacks == 1..MaxCallbacks
LifecycleCallbacks == 1..MaxLifecycleCallbacks
Listeners == 1..MaxListeners
FireCallbacks == 1..MaxFireRegistrations
Endpoints == 1..MaxEndpoints
Seeds == 1..MaxSeed
AllPlayers == 1..MaxPlayers
Handlers == 1..MaxHandlers
ArgLists == UNION {[1..n -> 1..MaxArgs] : n \in 0..MaxArgs}

Outcome(op, arg, kind, val) == [op |-> op, arg |-> arg, kind |-> kind, val |-> val]

Count(seq, x) == Cardinality({i \in 1..Len(seq) : seq[i] = x})

RECURSIVE SumUpTo(_, _)
SumUpTo(f, n) == IF n = 0 THEN 0 ELSE f[n] + SumUpTo(f, n - 1)

----------------------------------------------------------------------------
\* Core

CoreInit ==
    /\ started = FALSE
    /\ awaitStartThreads = <<>>
    /\ awaitCallbacks = <<>>
    /\ provider = [c \in Classes |-> 0]
    /\ provPc = [c \in Classes |-> "undeclared"]
    /\ instOf = [c \in Classes |-> 0]
    /\ startPc = "idle"
    /\ startIdx = 1
    /\ tstate = [t \in Threads |-> "ready"]
    /\ parks = [t \in Threads |-> 0]
    /\ resumes = [t \in Threads |-> 0]
    /\ passed = [cb \in StartCallbacks |-> 0]
    /\ ran = [cb \in StartCallbacks |-> 0]
    /\ last = Outcome("none", 0, "void", 0)

\* User code runs either outside start, or inside a task that the running
\* start has already spawned or resumed.
CanCall ==
    \/ startPc = "idle"
    \/ startPc = "callbacks" /\ startIdx > 1
    \/ startPc = "threads" /\ (startIdx > 1 \/ Len(awaitCallbacks) > 0)

\* new providerClass(): the object made by the one declaration of class c.
NewInstance(c) == c

\* Provider(): the decorator is applied to class c.  It raises when started,
\* otherwise it enters `new providerClass()`.  A class declaration is
\* evaluated once, so the decorator runs once per class.
ProviderCallUnguarded(c) ==
    /\ CanCall
    /\ provPc[c] = "undeclared"
    /\ provPc' = [provPc EXCEPT ![c] = "constructing"]
    /\ instOf' = [instOf EXCEPT ![c] = NewInstance(c)]
    /\ last' = Outcome("Provider", c, "constructing", NewInstance(c))
    /\ UNCHANGED <<started, awaitStartThreads, awaitCallbacks, provider,
                   startPc, startIdx, tstate, parks, resumes, passed, ran>>
    /\ OnlyCore

ProviderCall(c) ==
    /\ CanCall
    /\ provPc[c] = "undeclared"
    /\ IF started
       THEN /\ provPc' = [provPc EXCEPT ![c] = "failed"]
            /\ last' = Outcome("Provider", c, "raised", 0)
            /\ UNCHANGED instOf
       ELSE /\ provPc' = [provPc EXCEPT ![c] = "constructing"]
            /\ instOf' = [instOf EXCEPT ![c] = NewInstance(c)]
                    /\ last' = Outcome("Provider", c, "constructing", NewInstance(c))
    /\ UNCHANGED <<started, awaitStartThreads, awaitCallbacks, provider,
                   startPc, startIdx, tstate, parks, resumes, passed, ran>>
    /\ OnlyCore

\* The constructor has returned: the instance is stored on the class.  The
\* constructor may have yielded or called into Neutron in between.
ProviderStoreShared(c) ==
    /\ startPc = "idle"
    /\ provPc[c] = "constructing"
    /\ provider' = [k \in Classes |-> instOf[c]]
    /\ provPc' = [provPc EXCEPT ![c] = "declared"]
    /\ UNCHANGED <<last, started, awaitStartThreads, awaitCallbacks, instOf,
                   startPc, startIdx, tstate, parks, resumes, passed, ran>>
    /\ OnlyCore

ProviderStore(c) ==
    /\ startPc = "idle"
    /\ provPc[c] = "constructing"
    /\ provider' = [provider EXCEPT ![c] = instOf[c]]
    /\ provPc' = [provPc EXCEPT ![c] = "declared"]
    /\ UNCHANGED <<last, started, awaitStartThreads, awaitCallbacks, instOf,
                   startPc, startIdx, tstate, parks, resumes, passed, ran>>
    /\ OnlyCore

\* The constructor raised: nothing is stored.
ProviderThrow(c) ==
    /\ startPc = "idle"
    /\ provPc[c] = "constructing"
    /\ provPc' = [provPc EXCEPT ![c] = "failed"]
    /\ UNCHANGED <<last, started, awaitStartThreads, awaitCallbacks, provider, instOf,
                   startPc, startIdx, tstate, parks, resumes, passed, ran>>
    /\ OnlyCore

\* Neutron.get
GetResultNoCheck(c) == [kind |-> "value", val |-> provider[c]]

GetResult(c) ==
    IF provider[c] = 0
    THEN [kind |-> "raised", val |-> 0]
    ELSE [kind |-> "value", val |-> provider[c]]

GetCall(c) ==
    /\ CanCall
    /\ last' = Outcome("get", c, GetResult(c).kind, GetResult(c).val)
    /\ UNCHANGED coreState
    /\ OnlyCore

\* Neutron.isStarted
IsStarted == started

\* Neutron.start, up to the first forEach.
StartCallUnguarded ==
    /\ CanCall
    /\ started' = TRUE
    /\ startPc' = "callbacks"
    /\ startIdx' = 1
    /\ last' = Outcome("start", 0, "began", 0)
    /\ UNCHANGED <<awaitStartThreads, awaitCallbacks, provider, provPc, instOf,
                   tstate, parks, resumes, passed, ran>>
    /\ OnlyCore

StartCall ==
    /\ CanCall
    /\ IF started
       THEN /\ last' = Outcome("start", 0, "noop", 0)
            /\ UNCHANGED coreState
       ELSE /\ started' = TRUE
            /\ startPc' = "callbacks"
            /\ startIdx' = 1
            /\ last' = Outcome("start", 0, "began", 0)
            /\ UNCHANGED <<awaitStartThreads, awaitCallbacks, provider, provPc,
                           instOf, tstate, parks, resumes, passed, ran>>
    /\ OnlyCore

\* awaitCallbacks.forEach((callback) => task.spawn(callback)): one iteration,
\* as far as the core goes.
SpawnCallback ==
    /\ startPc = "callbacks"
    /\ startIdx <= Len(awaitCallbacks)
    /\ ran' = [ran EXCEPT ![awaitCallbacks[startIdx]] = @ + 1]
    /\ startIdx' = startIdx + 1
    /\ UNCHANGED <<started, awaitStartThreads, awaitCallbacks, provider, provPc,
                   instOf, startPc, tstate, parks, resumes, passed>>

\* The iteration for a callback that leaves the rest of the state alone.
StartSpawnCallback ==
    /\ SpawnCallback
    /\ UNCHANGED last
    /\ OnlyCore

\* The first forEach is over, the second begins.
StartCallbacksDone ==
    /\ startPc = "callbacks"
    /\ startIdx > Len(awaitCallbacks)
    /\ startPc' = "threads"
    /\ startIdx' = 1
    /\ UNCHANGED <<started, awaitStartThreads, awaitCallbacks, provider, provPc,
                   instOf, tstate, parks, resumes, passed, ran, last>>
    /\ OnlyCore

\* awaitStartThreads.forEach((awaitThread) => task.spawn(awaitThread)): one
\* iteration.
StartResumeThread ==
    /\ startPc = "threads"
    /\ startIdx <= Len(awaitStartThreads)
    /\ tstate' = [tstate EXCEPT ![awaitStartThreads[startIdx]] = "ready"]
    /\ resumes' = [resumes EXCEPT ![awaitStartThreads[startIdx]] = @ + 1]
    /\ startIdx' = startIdx + 1
    /\ UNCHANGED <<last, started, awaitStartThreads, awaitCallbacks, provider, provPc,
                   instOf, startPc, parks, passed, ran>>
    /\ OnlyCore

\* awaitCallbacks.clear(); awaitStartThreads.clear(); start returns.
StartClear ==
    /\ startPc = "threads"
    /\ startIdx > Len(awaitStartThreads)
    /\ awaitCallbacks' = <<>>
    /\ awaitStartThreads' = <<>>
    /\ startPc' = "idle"
    /\ startIdx' = 1
    /\ UNCHANGED <<last, started, provider, provPc, instOf, tstate, parks,
                   resumes, passed, ran>>
    /\ OnlyCore

\* Neutron.awaitStart, called by thread t.
AwaitStartAlwaysParks(t) ==
    /\ CanCall
    /\ tstate[t] = "ready"
    /\ awaitStartThreads' = Append(awaitStartThreads, t)
    /\ tstate' = [tstate EXCEPT ![t] = "parked"]
    /\ parks' = [parks EXCEPT ![t] = @ + 1]
    /\ last' = Outcome("awaitStart", 0, "yielded", 0)
    /\ UNCHANGED <<started, awaitCallbacks, provider, provPc, instOf,
                   startPc, startIdx, resumes, passed, ran>>
    /\ OnlyCore

AwaitStart(t) ==
    /\ CanCall
    /\ tstate[t] = "ready"
    /\ IF started
       THEN /\ last' = Outcome("awaitStart", 0, "returned", 0)
            /\ UNCHANGED coreState
       ELSE /\ awaitStartThreads' = Append(awaitStartThreads, t)
            /\ tstate' = [tstate EXCEPT ![t] = "parked"]
            /\ parks' = [parks EXCEPT ![t] = @ + 1]
            /\ last' = Outcome("awaitStart", 0, "yielded", 0)
            /\ UNCHANGED <<started, awaitCallbacks, provider, provPc, instOf,
                           startPc, startIdx, resumes, passed, ran>>
    /\ OnlyCore

\* Neutron.onStart(cb)
OnStartAlwaysQueues(cb) ==
    /\ CanCall
    /\ SumUpTo(passed, MaxCallbacks) < MaxOnStartCalls
    /\ passed' = [passed EXCEPT ![cb] = @ + 1]
    /\ awaitCallbacks' = Append(awaitCallbacks, cb)
    /\ last' = Outcome("onStart", 0, "queued", 0)
    /\ UNCHANGED <<started, awaitStartThreads, provider, provPc, instOf,
                   startPc, startIdx, tstate, parks, resumes, ran>>
    /\ OnlyCore

\* onStart as far as the core goes: the callback is spawned or queued.
OnStartCall(cb) ==
    /\ CanCall
    /\ SumUpTo(passed, MaxCallbacks) < MaxOnStartCalls
    /\ passed' = [passed EXCEPT ![cb] = @ + 1]
    /\ IF started
       THEN /\ ran' = [ran EXCEPT ![cb] = @ + 1]
            /\ UNCHANGED awaitCallbacks
       ELSE /\ awaitCallbacks' = Append(awaitCallbacks, cb)
            /\ UNCHANGED ran
    /\ UNCHANGED <<started, awaitStartThreads, provider, provPc, instOf,
                   startPc, startIdx, tstate, parks, resumes>>

\* onStart with a callback that leaves the rest of the state alone.
OnStart(cb) ==
    /\ OnStartCall(cb)
    /\ last' = Outcome("onStart", 0, IF started THEN "spawned" ELSE "queued", 0)
    /\ OnlyCore

NextCore ==
    \/ \E c \in Classes : ProviderCall(c)
    \/ \E c \in Classes : ProviderStore(c)
    \/ \E c \in Classes : ProviderThrow(c)
    \/ \E c \in Classes : GetCall(c)
    \/ StartCall
    \/ StartSpawnCallback
    \/ StartCallbacksDone
    \/ StartResumeThread
    \/ StartClear
    \/ \E t \in Threads : AwaitStart(t)
    \/ \E cb \in StartCallbacks : OnStart(cb)


----------------------------------------------------------------------------
\* Lifecycle (src/src/lifecycle.ts)

NoMethodCall ==
    [kind |-> "none", class |-> 0, receiver |-> 0, passed |-> <<>>, args |-> <<>>]

\* An entry of callbacks is [callback, reg]: the callback (compared by
\* identity) and the ordinal of the register call that pushed it.  The memory
\* category of an entry is only handed to debug.setmemorycategory.
LifecycleInit(b) ==
    /\ behavior = b
    /\ callbacks = <<>>
    /\ nextReg = 1
    /\ firePc = "idle"
    /\ fireIdx = 1
    /\ fireStart = {}
    /\ invoked = <<>>
    /\ mutated = FALSE
    /\ dupSeen = FALSE
    /\ running = 0
    /\ suspended = {}
    /\ onRegisteredCallbacks = <<>>
    /\ onUnregisteredCallbacks = <<>>
    /\ notifyPc = "idle"
    /\ notifyIdx = 1
    /\ notifyArg = 0
    /\ allIdx = 1
    /\ cancelFns = {}
    /\ notified = <<>>
    /\ cancelledInFlight = FALSE
    /\ subscribedInFlight = FALSE
    /\ fireArgs = <<>>
    /\ methodCall = NoMethodCall
    /\ subs = <<>>

Regs(seq) == {seq[i].reg : i \in 1..Len(seq)}

\* User code calls into the lifecycle outside a fire, from a callback that is
\* executing, or from another thread while a Series fire is held up by a
\* callback that has yielded.  The loop of a fire itself never yields.
CanMutate ==
    /\ notifyPc = "idle"
    /\ \/ firePc = "idle"
       \/ running # 0
       \/ behavior = "Series" /\ suspended # {}

\* A call begins to notify: its listener loop starts at the first element.
\* A loop over an empty array is over at once.
NotifyBegin(pc, listeners, c) ==
    /\ notifyPc' = IF listeners = <<>> THEN "idle" ELSE pc
    /\ notifyIdx' = 1
    /\ notifyArg' = IF listeners = <<>> THEN 0 ELSE c
    /\ notified' = <<>>
    /\ cancelledInFlight' = FALSE
    /\ subscribedInFlight' = FALSE

\* register(callback, memoryCategory): push, then
\* onRegisteredCallbacks.forEach((onRegistered) => onRegistered(callback))
RegisterNoNotify(c) ==
    /\ CanMutate
    /\ nextReg <= MaxRegistrations
    /\ callbacks' = Append(callbacks, [callback |-> c, reg |-> nextReg])
    /\ nextReg' = nextReg + 1
    /\ mutated' = (mutated \/ firePc = "iter")
    /\ dupSeen' = (dupSeen \/ \E i \in 1..Len(callbacks) : callbacks[i].callback = c)
    /\ last' = Outcome("register", c, "void", nextReg)
    /\ NotifyBegin("registered", <<>>, c)
    /\ UNCHANGED <<behavior, firePc, fireIdx, fireStart, invoked, running, suspended>>
    /\ UNCHANGED <<onRegisteredCallbacks, onUnregisteredCallbacks, allIdx, cancelFns>>
    /\ OnlyLifecycle

Register(c) ==
    /\ CanMutate
    /\ nextReg <= MaxRegistrations
    /\ callbacks' = Append(callbacks, [callback |-> c, reg |-> nextReg])
    /\ nextReg' = nextReg + 1
    /\ mutated' = (mutated \/ firePc = "iter")
    /\ dupSeen' = (dupSeen \/ \E i \in 1..Len(callbacks) : callbacks[i].callback = c)
    /\ last' = Outcome("register", c, "void", nextReg)
    /\ NotifyBegin("registered", onRegisteredCallbacks, c)
    /\ UNCHANGED <<behavior, firePc, fireIdx, fireStart, invoked, running, suspended>>
    /\ UNCHANGED <<onRegisteredCallbacks, onUnregisteredCallbacks, allIdx, cancelFns>>
    /\ OnlyLifecycle

\* callbacks.findIndex((item) => item.callback === callback), 0 when absent
FindIndex(seq, c) ==
    IF \E i \in 1..Len(seq) : seq[i].callback = c
    THEN CHOOSE i \in 1..Len(seq) :
            /\ seq[i].callback = c
            /\ \A j \in 1..(i - 1) : seq[j].callback # c
    ELSE 0

\* Array.unorderedRemove(index): the last element takes the place of the
\* removed one.
UnorderedRemove(seq, i) ==
    [j \in 1..(Len(seq) - 1) |-> IF j = i THEN seq[Len(seq)] ELSE seq[j]]

\* unregister(callback): findIndex, unorderedRemove, then
\* callOnUnregisteredCallbacks(callback)
UnregisterAllMatching(c) ==
    /\ CanMutate
    /\ IF FindIndex(callbacks, c) = 0
       THEN /\ last' = Outcome("unregister", c, "noop", 0)
            /\ NotifyBegin("unregistered", <<>>, c)
            /\ UNCHANGED <<callbacks, mutated>>
       ELSE /\ callbacks' = SelectSeq(callbacks, LAMBDA e : e.callback # c)
            /\ mutated' = (mutated \/ firePc = "iter")
            /\ last' = Outcome("unregister", c, "void",
                               callbacks[FindIndex(callbacks, c)].reg)
            /\ NotifyBegin("unregistered", onUnregisteredCallbacks, c)
    /\ UNCHANGED <<behavior, nextReg, firePc, fireIdx, fireStart, invoked, dupSeen,
                   running, suspended>>
    /\ UNCHANGED <<onRegisteredCallbacks, onUnregisteredCallbacks, allIdx, cancelFns>>
    /\ OnlyLifecycle

Unregister(c) ==
    /\ CanMutate
    /\ IF FindIndex(callbacks, c) = 0
       THEN /\ last' = Outcome("unregister", c, "noop", 0)
            /\ NotifyBegin("unregistered", <<>>, c)
            /\ UNCHANGED <<callbacks, mutated>>
       ELSE /\ callbacks' = UnorderedRemove(callbacks, FindIndex(callbacks, c))
            /\ mutated' = (mutated \/ firePc = "iter")
            /\ last' = Outcome("unregister", c, "void",
                               callbacks[FindIndex(callbacks, c)].reg)
            /\ NotifyBegin("unregistered", onUnregisteredCallbacks, c)
    /\ UNCHANGED <<behavior, nextReg, firePc, fireIdx, fireStart, invoked, dupSeen,
                   running, suspended>>
    /\ UNCHANGED <<onRegisteredCallbacks, onUnregisteredCallbacks, allIdx, cancelFns>>
    /\ OnlyLifecycle

\* unregisterAll(): callbacks.forEach((callback) =>
\* callOnUnregisteredCallbacks(callback.callback)), then callbacks.clear().
\* With nothing to announce, or nobody to announce it to, the loops are over
\* at once.
UnregisterAll ==
    /\ CanMutate
    /\ mutated' = (mutated \/ (firePc = "iter" /\ callbacks # <<>>))
    /\ last' = Outcome("unregisterAll", 0, "void", 0)
    /\ allIdx' = 1
    /\ IF callbacks = <<>> \/ onUnregisteredCallbacks = <<>>
       THEN /\ callbacks' = <<>>
            /\ NotifyBegin("unregisterAll", <<>>, 0)
       ELSE /\ NotifyBegin("unregisterAll", onUnregisteredCallbacks, callbacks[1].callback)
            /\ UNCHANGED callbacks
    /\ UNCHANGED <<behavior, nextReg, firePc, fireIdx, fireStart, invoked, dupSeen,
                   running, suspended>>
    /\ UNCHANGED <<onRegisteredCallbacks, onUnregisteredCallbacks, cancelFns>>
    /\ OnlyLifecycle

\* The array the running listener loop iterates.
NotifyListRegistered == onRegisteredCallbacks

NotifyList ==
    IF notifyPc = "registered" THEN onRegisteredCallbacks ELSE onUnregisteredCallbacks

\* One iteration of a listener loop (forEach in register, the for-of of
\* callOnUnregisteredCallbacks): the loop reads the array at its index and
\* calls that listener with the callback.
NotifyStep ==
    /\ notifyPc # "idle"
    /\ notifyIdx <= Len(NotifyList)
    /\ notified' = Append(notified, <<NotifyList[notifyIdx], notifyArg>>)
    /\ notifyIdx' = notifyIdx + 1
    /\ UNCHANGED <<onRegisteredCallbacks, onUnregisteredCallbacks, notifyPc, notifyArg,
                   allIdx, cancelFns, cancelledInFlight, subscribedInFlight>>
    /\ UNCHANGED <<lcVars, last>>
    /\ OnlyLifecycle

\* callOnUnregisteredCallbacks has returned inside unregisterAll's forEach and
\* callbacks has a next entry: it is announced.
UnregisterAllNext ==
    /\ notifyPc = "unregisterAll"
    /\ notifyIdx > Len(NotifyList)
    /\ allIdx < Len(callbacks)
    /\ allIdx' = allIdx + 1
    /\ notifyIdx' = 1
    /\ notifyArg' = callbacks[allIdx + 1].callback
    /\ UNCHANGED <<onRegisteredCallbacks, onUnregisteredCallbacks, notifyPc, cancelFns,
                   notified, cancelledInFlight, subscribedInFlight>>
    /\ UNCHANGED <<lcVars, last>>
    /\ OnlyLifecycle

\* The listener loop finds no element at its index, and unregisterAll has no
\* further entry: unregisterAll clears callbacks, and the call returns.
NotifyEnd ==
    /\ notifyPc # "idle"
    /\ notifyIdx > Len(NotifyList)
    /\ notifyPc = "unregisterAll" => allIdx >= Len(callbacks)
    /\ notifyPc' = "idle"
    /\ notifyIdx' = 1
    /\ notifyArg' = 0
    /\ allIdx' = 1
    /\ callbacks' = IF notifyPc = "unregisterAll" THEN <<>> ELSE callbacks
    /\ notified' = <<>>
    /\ cancelledInFlight' = FALSE
    /\ subscribedInFlight' = FALSE
    /\ UNCHANGED <<onRegisteredCallbacks, onUnregisteredCallbacks, cancelFns>>
    /\ UNCHANGED <<behavior, nextReg, firePc, fireIdx, fireStart, invoked, mutated,
                   dupSeen, running, suspended, last>>
    /\ OnlyLifecycle

\* User code subscribes and cancels where it may call register, and from a
\* listener that the running loop has called.  Listeners do not yield, and
\* do not register or unregister callbacks; the array of a running loop is
\* changed at most once.
CanSubscribe ==
    \/ CanMutate
    \/ notifyPc # "idle" /\ notifyIdx > 1 /\ ~cancelledInFlight /\ ~subscribedInFlight

\* array.indexOf(callback), 0 when absent
IndexOf(seq, x) ==
    IF \E i \in 1..Len(seq) : seq[i] = x
    THEN CHOOSE i \in 1..Len(seq) : seq[i] = x /\ \A j \in 1..(i - 1) : seq[j] # x
    ELSE 0

\* onRegistered(callback): push, and return the cleanup function
OnRegisteredCall(l) ==
    /\ CanSubscribe
    /\ Len(onRegisteredCallbacks) < MaxListeners
    /\ onRegisteredCallbacks' = Append(onRegisteredCallbacks, l)
    /\ cancelFns' = cancelFns \cup {<<"registered", l>>}
    /\ subscribedInFlight' = (subscribedInFlight \/ notifyPc = "registered")
    /\ UNCHANGED <<onUnregisteredCallbacks, notifyPc, notifyIdx, notifyArg, allIdx,
                   notified, cancelledInFlight>>
    /\ UNCHANGED <<lcVars, last>>

OnRegistered(l) ==
    /\ OnRegisteredCall(l)
    /\ OnlyLifecycle

\* onUnregistered(callback): push, and return the cleanup function
OnUnregisteredCall(l) ==
    /\ CanSubscribe
    /\ Len(onUnregisteredCallbacks) < MaxListeners
    /\ onUnregisteredCallbacks' = Append(onUnregisteredCallbacks, l)
    /\ cancelFns' = cancelFns \cup {<<"unregistered", l>>}
    /\ subscribedInFlight' =
           (subscribedInFlight \/ notifyPc \in {"unregistered", "unregisterAll"})
    /\ UNCHANGED <<onRegisteredCallbacks, notifyPc, notifyIdx, notifyArg, allIdx,
                   notified, cancelledInFlight>>
    /\ UNCHANGED <<lcVars, last>>

OnUnregistered(l) ==
    /\ OnUnregisteredCall(l)
    /\ OnlyLifecycle

\* The cleanup function returned by onRegistered(l): indexOf, unorderedRemove
CancelOnRegisteredCall(l) ==
    /\ CanSubscribe
    /\ <<"registered", l>> \in cancelFns
    /\ IF IndexOf(onRegisteredCallbacks, l) = 0
       THEN UNCHANGED <<onRegisteredCallbacks, cancelledInFlight>>
       ELSE /\ onRegisteredCallbacks' =
                   UnorderedRemove(onRegisteredCallbacks, IndexOf(onRegisteredCallbacks, l))
            /\ cancelledInFlight' = (cancelledInFlight \/ notifyPc = "registered")
    /\ UNCHANGED <<onUnregisteredCallbacks, notifyPc, notifyIdx, notifyArg, allIdx,
                   cancelFns, notified, subscribedInFlight>>
    /\ UNCHANGED <<lcVars, last>>

CancelOnRegistered(l) ==
    /\ CancelOnRegisteredCall(l)
    /\ OnlyLifecycle

\* The cleanup function returned by onUnregistered(l): indexOf, unorderedRemove
CancelOnUnregisteredCall(l) ==
    /\ CanSubscribe
    /\ <<"unregistered", l>> \in cancelFns
    /\ IF IndexOf(onUnregisteredCallbacks, l) = 0
       THEN UNCHANGED <<onUnregisteredCallbacks, cancelledInFlight>>
       ELSE /\ onUnregisteredCallbacks' =
                   UnorderedRemove(onUnregisteredCallbacks,
                                   IndexOf(onUnregisteredCallbacks, l))
            /\ cancelledInFlight' =
                   (cancelledInFlight \/ notifyPc \in {"unregistered", "unregisterAll"})
    /\ UNCHANGED <<onRegisteredCallbacks, notifyPc, notifyIdx, notifyArg, allIdx,
                   cancelFns, notified, subscribedInFlight>>
    /\ UNCHANGED <<lcVars, last>>

CancelOnUnregistered(l) ==
    /\ CancelOnUnregisteredCall(l)
    /\ OnlyLifecycle

\* The array a subscription of the given kind is in.
ListenersOf(list) ==
    IF list = "registered" THEN onRegisteredCallbacks ELSE onUnregisteredCallbacks

\* onRegistered(l) or onUnregistered(l): the call, and the cleanup function
\* it returns, are entry Len(subs) + 1 of subs.
Subscribe(list, l) ==
    /\ Len(subs) < MaxSubscriptions
    /\ IF list = "registered" THEN OnRegisteredCall(l) ELSE OnUnregisteredCall(l)
    /\ subs' = Append(subs, [list |-> list, listener |-> l, cancels |-> 0])
    /\ OnlySubscriptions

\* The cleanup function the k-th subscribe call returned is called; two
\* calls and more count as two.
CallCancel(k) ==
    /\ k \in 1..Len(subs)
    /\ IF subs[k].list = "registered"
       THEN CancelOnRegisteredCall(subs[k].listener)
       ELSE CancelOnUnregisteredCall(subs[k].listener)
    /\ subs' = [subs EXCEPT ![k].cancels = IF @ = 0 THEN 1 ELSE 2]
    /\ OnlySubscriptions

\* Fire and the callbacks it invokes take their steps outside listener loops,
\* and leave the listeners alone.
Quiet == notifyPc = "idle" /\ UNCHANGED mlVars

\* The thread that runs the loop of fire has control: no callback is
\* executing, and in Series mode, where a callback runs in the loop's own
\* thread, none has yielded without returning.
FirerWaitsForAll == running = 0 /\ suspended = {}

FirerHasControl == running = 0 /\ (behavior = "Series" => suspended = {})

\* fire(...args) is called: fireSeries or fireConcurrent enters its loop.
\* Threads left suspended by an earlier fire are no longer followed.
FireCall ==
    /\ firePc = "idle"
    /\ running = 0
    /\ firePc' = "iter"
    /\ fireIdx' = 1
    /\ fireStart' = Regs(callbacks)
    /\ invoked' = <<>>
    /\ mutated' = FALSE
    /\ suspended' = {}
    /\ last' = Outcome("fire", 0, "began", 0)
    /\ UNCHANGED <<behavior, callbacks, nextReg, dupSeen, running>>
    /\ Quiet

\* fire called by code that leaves the core alone.
FireBegin ==
    /\ FireCall
    /\ OnlyLifecycle

\* One iteration of `for (const callback of this.callbacks)`: the loop reads
\* the array at its index, then calls the callback (Series) or spawns it
\* (Concurrent); either way the callback starts executing at once.
FireStepUnordered ==
    /\ firePc = "iter"
    /\ fireIdx <= Len(callbacks)
    /\ running = 0
    /\ invoked' = Append(invoked, callbacks[fireIdx].reg)
    /\ fireIdx' = fireIdx + 1
    /\ running' = callbacks[fireIdx].reg
    /\ last' = Outcome("invoke", callbacks[fireIdx].callback, behavior,
                       callbacks[fireIdx].reg)
    /\ UNCHANGED <<behavior, callbacks, nextReg, firePc, fireStart, mutated, dupSeen,
                   suspended>>
    /\ Quiet
    /\ OnlyLifecycle

FireStep ==
    /\ FirerHasControl
    /\ FireStepUnordered

\* The loop finds no element at its index: fire returns.
FireEnd ==
    /\ firePc = "iter"
    /\ fireIdx > Len(callbacks)
    /\ FirerHasControl
    /\ firePc' = "idle"
    /\ fireIdx' = 1
    /\ last' = Outcome("fire", 0, "returned", 0)
    /\ UNCHANGED <<behavior, callbacks, nextReg, fireStart, invoked, mutated, dupSeen,
                   running, suspended>>
    /\ Quiet
    /\ OnlyLifecycle

\* The executing callback returns.  In Series mode control is back in the
\* loop; in Concurrent mode the spawned thread ends and task.spawn returns.
CallbackReturns ==
    /\ running # 0
    /\ running' = 0
    /\ UNCHANGED <<behavior, callbacks, nextReg, firePc, fireIdx, fireStart, invoked,
                   mutated, dupSeen, suspended, last>>
    /\ Quiet

CallbackReturn ==
    /\ CallbackReturns
    /\ OnlyLifecycle

\* The executing callback yields.  In Concurrent mode task.spawn returns to
\* the loop; in Series mode the loop's own thread is the one that yielded.
CallbackYield ==
    /\ running # 0
    /\ running' = 0
    /\ suspended' = suspended \cup {running}
    /\ UNCHANGED <<behavior, callbacks, nextReg, firePc, fireIdx, fireStart, invoked,
                   mutated, dupSeen, last>>
    /\ Quiet
    /\ OnlyLifecycle

\* The scheduler resumes a callback that had yielded.  It cannot do so while
\* the loop of a Concurrent fire holds the only running thread.
CallbackResume(r) ==
    /\ r \in suspended
    /\ running = 0
    /\ firePc = "idle" \/ behavior = "Series"
    /\ running' = r
    /\ suspended' = suspended \ {r}
    /\ UNCHANGED <<behavior, callbacks, nextReg, firePc, fireIdx, fireStart, invoked,
                   mutated, dupSeen, last>>
    /\ Quiet
    /\ OnlyLifecycle

\* The executing callback raises.  In Series mode the error leaves the loop
\* and fire with it; in Concurrent mode it ends the spawned thread only.
CallbackRaises ==
    /\ running # 0
    /\ running' = 0
    /\ IF behavior = "Series"
       THEN /\ firePc' = "idle"
            /\ fireIdx' = 1
            /\ last' = Outcome("fire", 0, "raised", running)
       ELSE /\ last' = Outcome("callback", 0, "raised", running)
            /\ UNCHANGED <<firePc, fireIdx>>
    /\ UNCHANGED <<behavior, callbacks, nextReg, fireStart, invoked, mutated, dupSeen,
                   suspended>>
    /\ Quiet

CallbackRaisePropagates ==
    /\ running # 0
    /\ running' = 0
    /\ firePc' = "idle"
    /\ fireIdx' = 1
    /\ last' = Outcome("fire", 0, "raised", running)
    /\ UNCHANGED <<behavior, callbacks, nextReg, fireStart, invoked, mutated, dupSeen,
                   suspended>>
    /\ Quiet
    /\ OnlyLifecycle

CallbackRaise ==
    /\ CallbackRaises
    /\ OnlyLifecycle

----------------------------------------------------------------------------
\* The Lifecycle decorator (src/src/lifecycle.ts)

\* The callback the decorator registers for a method of class c is named c:
\* (...args) => descriptor.value(Neutron.get(target), ...args).  Its
\* invocation with the arguments args: Neutron.get raises, or the method is
\* called with the instance and the arguments.
BoundInvokeUnchecked(c, args) ==
    [kind |-> "called", class |-> c, receiver |-> provider[c],
     passed |-> args, args |-> args]

BoundInvoke(c, args) ==
    IF GetResult(c).kind = "raised"
    THEN [kind |-> "raised", class |-> c, receiver |-> 0,
          passed |-> args, args |-> <<>>]
    ELSE [kind |-> "called", class |-> c, receiver |-> GetResult(c).val,
          passed |-> args, args |-> args]

\* The decorator is applied to a method of class c: lifecycle.register.
Decorate(c) ==
    /\ \A i \in 1..Len(callbacks) : callbacks[i].callback # c
    /\ Register(c)

\* fire(...args) of the lifecycle the methods are bound to.
FireWith(args) ==
    /\ FireCall
    /\ fireArgs' = args
    /\ UNCHANGED methodCall
    /\ OnlyDecorator

\* The callback of the entry whose register call had ordinal r.
CallbackOfReg(r) ==
    callbacks[CHOOSE i \in 1..Len(callbacks) : callbacks[i].reg = r].callback

\* The bound callback the loop of fire has just called or spawned runs: it
\* raises in Neutron.get, or calls the method, which returns.
BoundCallbackRun ==
    /\ running # 0
    /\ \E i \in 1..Len(callbacks) : callbacks[i].reg = running
    /\ methodCall' = BoundInvoke(CallbackOfReg(running), fireArgs)
    /\ IF BoundInvoke(CallbackOfReg(running), fireArgs).kind = "raised"
       THEN CallbackRaises
       ELSE CallbackReturns
    /\ UNCHANGED fireArgs
    /\ OnlyDecorator

\* One iteration of the forEach of register whose listener does catch-up
\* dispatch: it calls the callback it is given, with arguments of its own.
\* An error of the callback leaves the listener, the loop and register.
ListenerCatchUp(args) ==
    /\ notifyPc = "registered"
    /\ notifyIdx <= Len(onRegisteredCallbacks)
    /\ methodCall' = BoundInvoke(notifyArg, args)
    /\ IF BoundInvoke(notifyArg, args).kind = "raised"
       THEN /\ notifyPc' = "idle"
            /\ notifyIdx' = 1
            /\ notifyArg' = 0
            /\ notified' = <<>>
            /\ last' = Outcome("register", notifyArg, "raised", 0)
       ELSE /\ notified' = Append(notified, <<onRegisteredCallbacks[notifyIdx], notifyArg>>)
            /\ notifyIdx' = notifyIdx + 1
            /\ UNCHANGED <<notifyPc, notifyArg, last>>
    /\ UNCHANGED <<onRegisteredCallbacks, onUnregisteredCallbacks, allIdx, cancelFns,
                   cancelledInFlight, subscribedInFlight>>
    /\ UNCHANGED <<lcVars, fireArgs>>
    /\ OnlyDecorator

\* The argument lists the bound methods are fired and called with.
BoundArgs == {<<>>, <<1>>, <<2, 1>>}

\* Classes are declared and decorated, and the listener subscribes, while no
\* fire and no register call is under way.
DecoratorIdle == firePc = "idle" /\ running = 0 /\ notifyPc = "idle"

NextDecorator ==
    \/ \E c \in Classes : DecoratorIdle /\ ProviderCall(c)
    \/ \E c \in Classes : DecoratorIdle /\ ProviderStore(c)
    \/ \E c \in Classes : DecoratorIdle /\ ProviderThrow(c)
    \/ \E c \in Classes : DecoratorIdle /\ Decorate(c)
    \/ \E l \in Listeners :
            DecoratorIdle /\ onRegisteredCallbacks = <<>> /\ OnRegistered(l)
    \/ \E args \in BoundArgs : ListenerCatchUp(args)
    \/ NotifyEnd
    \/ \E args \in BoundArgs : FireWith(args)
    \/ FireStep
    \/ BoundCallbackRun
    \/ FireEnd

----------------------------------------------------------------------------
\* Net (src/src/net.ts): server-side fire of NetEvent and UnreliableNetEvent

\* A target is what the caller passes as `player`: one Player, or an array
\* of Players (its elements, as a set).  The players passed are connected
\* when fire is called.
Targets ==
    [kind : {"player"}, players : {{p} : p \in AllPlayers}]
        \cup [kind : {"table"}, players : SUBSET AllPlayers]

NoDelivery == [p \in AllPlayers |-> 0]

EventsInit ==
    /\ connected = {}
    /\ fired = [event |-> "none", target |-> [kind |-> "table", players |-> {}]]
    /\ delivered = NoDelivery

\* Players.PlayerAdded / Players.PlayerRemoving
PlayerJoins(p) ==
    /\ p \notin connected
    /\ connected' = connected \cup {p}
    /\ UNCHANGED <<fired, delivered>>
    /\ OnlyEvents

PlayerLeaves(p) ==
    /\ p \in connected
    /\ connected' = connected \ {p}
    /\ UNCHANGED <<fired, delivered>>
    /\ OnlyEvents

\* fire(player, ...args): with typeOf(player) === "table",
\* Players.GetPlayers().forEach((otherPlayer) => FireClient(otherPlayer, ...args)),
\* else FireClient(player, ...args).  The players FireClient is called for:
FireClients(target) ==
    IF target.kind = "table" THEN connected ELSE target.players

\* NetEventServer.fire
NetEventServerFire(target) ==
    /\ target.players \subseteq connected
    /\ fired' = [event |-> "NetEvent", target |-> target]
    /\ delivered' = [p \in AllPlayers |-> IF p \in FireClients(target) THEN 1 ELSE 0]
    /\ UNCHANGED connected
    /\ OnlyEvents

\* UnreliableNetEventServer.fire
UnreliableNetEventServerFire(target) ==
    /\ target.players \subseteq connected
    /\ fired' = [event |-> "UnreliableNetEvent", target |-> target]
    /\ delivered' = [p \in AllPlayers |-> IF p \in FireClients(target) THEN 1 ELSE 0]
    /\ UNCHANGED connected
    /\ OnlyEvents

NextEvents ==
    \/ \E p \in AllPlayers : PlayerJoins(p)
    \/ \E p \in AllPlayers : PlayerLeaves(p)
    \/ \E target \in Targets : NetEventServerFire(target)
    \/ \E target \in Targets : UnreliableNetEventServerFire(target)

----------------------------------------------------------------------------
\* Net (src/src/net.ts): NetFunction and DangerousNetFunction

Machines == {"server", "client"}
FunctionClasses == {"NetFunction", "DangerousNetFunction"}
Apis == {"server", "client"}

NoCallbacks == [m \in Machines |-> [OnServerInvoke |-> 0, OnClientInvoke |-> 0]]

NoCall ==
    [machine |-> "server", api |-> "server", op |-> "none",
     withPlayer |-> FALSE, args |-> <<>>, handler |-> 0]

\* What a handler receives: the argument list `items`, or with packed one
\* argument, the array `items`; player tells whether the Player the caller
\* passed comes first in it.
Received(packed, player, items) ==
    [packed |-> packed, player |-> player, items |-> items]

NoInvocation ==
    [status |-> "none", dest |-> "server", handler |-> 0,
     received |-> Received(FALSE, FALSE, <<>>)]

FunctionsInit ==
    /\ fnClass = "none"
    /\ fnCallbacks = NoCallbacks
    /\ fnCall = NoCall
    /\ invocation = NoInvocation
    /\ promise = "none"
    /\ callerPc = "idle"

\* new NetFunction() / new DangerousNetFunction(), in the module both
\* machines load.
NewFunction(class) ==
    /\ callerPc = "idle"
    /\ fnClass' = class
    /\ fnCallbacks' = NoCallbacks
    /\ fnCall' = NoCall
    /\ invocation' = NoInvocation
    /\ promise' = "none"
    /\ UNCHANGED callerPc
    /\ OnlyFunctions

\* The class of the object the constructor stores in this.server and in
\* this.client.
ApiClass(class, api) ==
    IF class = "DangerousNetFunction"
    THEN IF api = "server" THEN "DangerousNetFunctionClient"
                           ELSE "DangerousNetFunctionServer"
    ELSE IF api = "server" THEN "NetFunctionServer"
                           ELSE "NetFunctionClient"

\* handle of each class: the callback property it assigns.
HandleProperty(impl) ==
    IF impl = "DangerousNetFunctionClient" THEN "OnClientInvoke" ELSE "OnServerInvoke"

\* function.<api>.handle(handler), called on machine m.
Handle(m, api, h) ==
    LET impl == ApiClass(fnClass, api)
    IN  /\ fnClass # "none"
        /\ impl # "NetFunctionClient"
        /\ fnCallbacks' = [fnCallbacks EXCEPT ![m][HandleProperty(impl)] = h]
        /\ fnCall' = [machine |-> m, api |-> api, op |-> "handle",
                      withPlayer |-> FALSE, args |-> <<>>, handler |-> h]
        /\ UNCHANGED <<fnClass, invocation, promise, callerPc>>
        /\ OnlyFunctions

\* invoke of each class: the method of RemoteFunction it calls.
InvokeMethod(impl) ==
    IF impl = "DangerousNetFunctionServer" THEN "InvokeClient" ELSE "InvokeServer"

\* InvokeServer works on a client and InvokeClient on the server; called on
\* the other machine they raise.
MethodWorksOn(method, m) ==
    IF method = "InvokeServer" THEN m = "client" ELSE m = "server"

\* What the remote handler receives from invoke of each class:
\* InvokeClient(player, args) and InvokeServer(args) pass the rest parameter
\* as one array, InvokeServer(...args) spreads it.
InvokeReceived(impl, withPlayer, args) ==
    IF impl = "NetFunctionClient"
    THEN Received(FALSE, FALSE, args)
    ELSE IF impl = "DangerousNetFunctionServer"
         THEN Received(TRUE, FALSE, args)
         ELSE Received(TRUE, withPlayer, args)

\* function.<api>.invoke([player,] ...args), called on machine m.  invoke is
\* async: its body runs until InvokeServer / InvokeClient yields or raises,
\* and the caller has the Promise.
Invoke(m, api, withPlayer, args) ==
    LET impl == ApiClass(fnClass, api)
        method == InvokeMethod(impl)
    IN  /\ fnClass # "none"
        /\ callerPc = "idle"
        /\ impl # "NetFunctionServer"
        /\ impl = "DangerousNetFunctionServer" => withPlayer
        /\ impl = "NetFunctionClient" => ~withPlayer
        /\ fnCall' = [machine |-> m, api |-> api, op |-> "invoke",
                      withPlayer |-> withPlayer, args |-> args, handler |-> 0]
        /\ IF MethodWorksOn(method, m)
           THEN /\ invocation' =
                       [status |-> "pending",
                        dest |-> IF method = "InvokeClient" THEN "client" ELSE "server",
                        handler |-> 0,
                        received |-> InvokeReceived(impl, withPlayer, args)]
                /\ promise' = "pending"
           ELSE /\ invocation' = NoInvocation
                /\ promise' = "rejected"
        /\ callerPc' = "past"
        /\ UNCHANGED <<fnClass, fnCallbacks>>
        /\ OnlyFunctions

\* The callback the destination of the invocation has for it.
DestCallback ==
    IF invocation.dest = "client"
    THEN fnCallbacks["client"].OnClientInvoke
    ELSE fnCallbacks["server"].OnServerInvoke

\* The invocation reaches the destination, whose callback starts.
HandlerStart ==
    /\ invocation.status = "pending"
    /\ DestCallback # 0
    /\ invocation' = [invocation EXCEPT !.status = "handling", !.handler = DestCallback]
    /\ UNCHANGED <<fnClass, fnCallbacks, fnCall, promise, callerPc>>
    /\ OnlyFunctions

\* The callback returns: InvokeServer / InvokeClient returns, the Promise
\* resolves and a task awaiting it resumes.
HandlerReturn ==
    /\ invocation.status = "handling"
    /\ invocation' = [invocation EXCEPT !.status = "returned"]
    /\ promise' = "resolved"
    /\ callerPc' = IF callerPc = "awaiting" THEN "resumed" ELSE callerPc
    /\ UNCHANGED <<fnClass, fnCallbacks, fnCall>>
    /\ OnlyFunctions

\* The callback raises: the Promise rejects.
HandlerRaise ==
    /\ invocation.status = "handling"
    /\ invocation' = [invocation EXCEPT !.status = "raised"]
    /\ promise' = "rejected"
    /\ callerPc' = IF callerPc = "awaiting" THEN "resumed" ELSE callerPc
    /\ UNCHANGED <<fnClass, fnCallbacks, fnCall>>
    /\ OnlyFunctions

\* The calling task awaits the Promise it has.
CallerAwait ==
    /\ callerPc = "past"
    /\ callerPc' = IF promise = "pending" THEN "awaiting" ELSE "resumed"
    /\ UNCHANGED <<fnClass, fnCallbacks, fnCall, invocation, promise>>
    /\ OnlyFunctions

\* The calling task is done with the call.
CallerDone ==
    /\ callerPc = "resumed"
    /\ callerPc' = "idle"
    /\ invocation' = NoInvocation
    /\ promise' = "none"
    /\ UNCHANGED <<fnClass, fnCallbacks, fnCall>>
    /\ OnlyFunctions

NextFunctions ==
    \/ \E class \in FunctionClasses : NewFunction(class)
    \/ \E m \in Machines, api \in Apis, h \in Handlers : Handle(m, api, h)
    \/ \E m \in Machines, api \in Apis, withPlayer \in BOOLEAN, args \in ArgLists :
            Invoke(m, api, withPlayer, args)
    \/ HandlerStart
    \/ HandlerReturn
    \/ HandlerRaise
    \/ CallerAwait
    \/ CallerDone

----------------------------------------------------------------------------
\* Net (src/src/net.ts): the endpoint namer

\* Strings are sequences of byte values.
NameLength == 16
MinChar == 33
MaxChar == 126

\* The call-site fingerprints `${s}${l}` drawn on: "ab" and "ba" have the same
\* byte sum, "ac" another one.  The name argument is absent or "a".
Fingerprints == {<<97, 98>>, <<98, 97>>, <<97, 99>>}
ExplicitNames == {<<97>>}
Declarations ==
    [data : Fingerprints, given : {FALSE}, name : {<<>>}]
        \cup [data : Fingerprints, given : {TRUE}, name : ExplicitNames]

\* The four endpoint classes and the className each hands to setupRemoteObject.
EndpointKinds == <<"NetEvent", "NetFunction", "UnreliableNetEvent", "DangerousNetFunction">>
KindOf(e) == EndpointKinds[((e - 1) % 4) + 1]
ClassNameOf(kind) ==
    CASE kind = "NetEvent" -> "RemoteEvent"
      [] kind = "UnreliableNetEvent" -> "UnreliableRemoteEvent"
      [] OTHER -> "RemoteFunction"

NetInit ==
    /\ isStudio \in BOOLEAN
    /\ decl \in [Endpoints -> Declarations]
    /\ serverSeed = 0
    /\ seedAttr = "absent"
    /\ clientSeed = 0
    /\ sNames = {}
    /\ cNames = {}
    /\ sFinal = [e \in Endpoints |-> <<>>]
    /\ cFinal = [e \in Endpoints |-> <<>>]
    /\ clientPc = "unloaded"
    /\ attrValue = 0
    /\ publishes = 0
    /\ waited = FALSE
    /\ EventsInit
    /\ FunctionsInit

NetIdle ==
    /\ isStudio = FALSE
    /\ decl = [e \in Endpoints |-> [data |-> <<97, 98>>, given |-> FALSE, name |-> <<>>]]
    /\ serverSeed = 0
    /\ seedAttr = "absent"
    /\ clientSeed = 0
    /\ sNames = {}
    /\ cNames = {}
    /\ sFinal = [e \in Endpoints |-> <<>>]
    /\ cFinal = [e \in Endpoints |-> <<>>]
    /\ clientPc = "unloaded"
    /\ attrValue = 0
    /\ publishes = 0
    /\ waited = FALSE
    /\ EventsInit
    /\ FunctionsInit

\* data.byte(1, data.size()).reduce((accumulator, val) => accumulator + val)
RECURSIVE ByteSum(_)
ByteSum(data) == IF Len(data) = 1 THEN data[1] ELSE data[1] + ByteSum(Tail(data))

\* new Random(nameSeed) and rng.NextInteger(33, 126): a deterministic
\* generator, here a linear congruential one, so that the name depends on
\* nameSeed only.  RngStep is the generator's state after one more draw.
RngStep(x) == (75 * x + 74) % 65537

NextInteger(x) == MinChar + (RngStep(x) % (MaxChar - MinChar + 1))

\* for (let i = 0; i < 16; i++) nameArray.push(rng.NextInteger(33, 126))
RECURSIVE NameArray(_, _)
NameArray(x, n) ==
    IF n = 0 THEN <<>> ELSE <<NextInteger(x)>> \o NameArray(RngStep(x), n - 1)

\* string.char(...nameArray)
BaseName(nameSeed) == NameArray(nameSeed % 65537, NameLength)

\* `${iter}`: the decimal digits of iter
RECURSIVE ToDecimal(_)
ToDecimal(n) == IF n < 10 THEN <<48 + n>> ELSE ToDecimal(n \div 10) \o <<48 + (n % 10)>>

\* while (networkNames.has(name)) { name = `${baseName}${iter}`; iter++ }
RECURSIVE Probe(_, _, _)
Probe(names, baseName, iter) ==
    IF (baseName \o ToDecimal(iter)) \in names
    THEN Probe(names, baseName, iter + 1)
    ELSE baseName \o ToDecimal(iter)

\* generateNetworkName(data): the name returned, given networkNames and seed
GenerateNetworkNameFromOne(names, seed, data) ==
    LET baseName == BaseName(seed + ByteSum(data))
    IN  IF baseName \in names THEN Probe(names, baseName, 1) ELSE baseName

GenerateNetworkName(names, seed, data) ==
    LET baseName == BaseName(seed + ByteSum(data))
    IN  IF baseName \in names THEN Probe(names, baseName, 0) ELSE baseName

\* setupRemoteObject: does it generate a name?
Generates(d) == ~d.given \/ ~isStudio

\* setupRemoteObject: the name before the "r/" prefix
RemoteName(names, seed, d) ==
    IF Generates(d) THEN GenerateNetworkName(names, seed, d.data) ELSE d.name

\* name = `r/${name}`
WireName(name) == <<114, 47>> \o name

\* The server runs the module: it picks its seed, makes the net folder and
\* sets attribute "s".
ServerLoad(s) ==
    /\ serverSeed = 0
    /\ serverSeed' = s
    /\ publishes' = publishes + 1
    /\ UNCHANGED <<isStudio, decl, seedAttr, clientSeed, sNames, cNames, sFinal, cFinal,
                   clientPc, attrValue, waited>>
    /\ OnlyNet

\* The attribute reaches the client.
ReplicateSeed ==
    /\ serverSeed # 0
    /\ seedAttr = "absent"
    /\ seedAttr' = "present"
    /\ attrValue' = serverSeed
    /\ UNCHANGED <<isStudio, decl, serverSeed, clientSeed, sNames, cNames, sFinal, cFinal,
                   clientPc, publishes, waited>>
    /\ OnlyNet

\* The client runs the module: it enters awaitSeedAttr.
ClientLoad ==
    /\ clientPc = "unloaded"
    /\ clientPc' = "polling"
    /\ UNCHANGED <<isStudio, decl, serverSeed, seedAttr, clientSeed, sNames, cNames,
                   sFinal, cFinal, attrValue, publishes, waited>>
    /\ OnlyNet

\* script.GetAttribute("s") gives undefined: task.wait(), and again.
ClientPoll ==
    /\ clientPc = "polling"
    /\ attrValue = 0
    /\ waited' = TRUE
    /\ UNCHANGED <<isStudio, decl, serverSeed, seedAttr, clientSeed, sNames, cNames,
                   sFinal, cFinal, clientPc, attrValue, publishes>>
    /\ OnlyNet

\* awaitSeedAttr finds the attribute: it reads it and clears it locally.
ClientReadSeedAnyway ==
    /\ clientPc = "polling"
    /\ clientSeed' = attrValue
    /\ attrValue' = 0
    /\ seedAttr' = IF seedAttr = "present" THEN "cleared" ELSE seedAttr
    /\ clientPc' = "ready"
    /\ UNCHANGED <<isStudio, decl, serverSeed, sNames, cNames, sFinal, cFinal,
                   publishes, waited>>
    /\ OnlyNet

ClientReadSeed ==
    /\ attrValue # 0
    /\ ClientReadSeedAnyway

\* An endpoint class is constructed on the server: setupRemoteObject names the
\* remote and parents it to the net folder.
ServerConstruct(e) ==
    /\ serverSeed # 0
    /\ sFinal[e] = <<>>
    /\ LET name == RemoteName(sNames, serverSeed, decl[e])
       IN  /\ sFinal' = [sFinal EXCEPT ![e] = WireName(name)]
           /\ sNames' = IF Generates(decl[e]) THEN sNames \cup {name} ELSE sNames
    /\ UNCHANGED <<isStudio, decl, serverSeed, seedAttr, clientSeed, cNames, cFinal,
                   clientPc, attrValue, publishes, waited>>
    /\ OnlyNet

\* The same endpoint is constructed on the client, which can happen once the
\* module has run: setupRemoteObject computes the name and waits for the
\* child of that name.
ClientConstruct(e) ==
    /\ clientPc = "ready"
    /\ cFinal[e] = <<>>
    /\ LET name == RemoteName(cNames, clientSeed, decl[e])
       IN  /\ cFinal' = [cFinal EXCEPT ![e] = WireName(name)]
           /\ cNames' = IF Generates(decl[e]) THEN cNames \cup {name} ELSE cNames
    /\ UNCHANGED <<isStudio, decl, serverSeed, seedAttr, clientSeed, sNames, sFinal,
                   clientPc, attrValue, publishes, waited>>
    /\ OnlyNet

NextNet ==
    \/ \E s \in Seeds : ServerLoad(s)
    \/ ReplicateSeed
    \/ ClientLoad
    \/ ClientPoll
    \/ ClientReadSeed
    \/ \E e \in Endpoints : ServerConstruct(e)
    \/ \E e \in Endpoints : ClientConstruct(e)

----------------------------------------------------------------------------
\* Specifications

InitCore == CoreInit /\ LifecycleInit("Concurrent") /\ NetIdle

SpecCore == InitCore /\ [][NextCore]_vars

InitLifecycle ==
    /\ CoreInit
    /\ \E b \in {"Series", "Concurrent"} : LifecycleInit(b)
    /\ NetIdle

NextLifecycle ==
    \/ \E c \in LifecycleCallbacks : Register(c)
    \/ \E c \in LifecycleCallbacks : Unregister(c)
    \/ UnregisterAll
    \/ FireBegin
    \/ FireStep
    \/ FireEnd
    \/ CallbackReturn
    \/ CallbackYield
    \/ \E r \in 1..MaxRegistrations : CallbackResume(r)
    \/ CallbackRaise

SpecLifecycle == InitLifecycle /\ [][NextLifecycle]_vars

\* Firing with callbacks that yield: the same lifecycle with fewer register
\* calls, in Series mode and in Concurrent mode.
NextFire ==
    \/ \E c \in FireCallbacks : nextReg <= MaxFireRegistrations /\ Register(c)
    \/ \E c \in LifecycleCallbacks : Unregister(c)
    \/ UnregisterAll
    \/ FireBegin
    \/ FireStep
    \/ FireEnd
    \/ CallbackReturn
    \/ CallbackYield
    \/ \E r \in 1..MaxRegistrations : CallbackResume(r)
    \/ CallbackRaise

\* A lifecycle of either behaviour.
InitFire ==
    /\ CoreInit
    /\ \E b \in {"Series", "Concurrent"} : LifecycleInit(b)
    /\ NetIdle

SpecFire == InitFire /\ [][NextFire]_vars

InitSeries == CoreInit /\ LifecycleInit("Series") /\ NetIdle

SpecSeries == InitSeries /\ [][NextFire]_vars

\* A Concurrent lifecycle under the scheduling the task library gives: the
\* loop of fire keeps going while it holds the running thread, and a callback
\* that executes sooner or later returns, yields or raises.  Nothing says
\* that a callback that has yielded is ever resumed.
SpecConcurrent ==
    /\ InitCore
    /\ [][NextFire]_vars
    /\ WF_vars(FireStep)
    /\ WF_vars(FireEnd)
    /\ WF_vars(CallbackReturn \/ CallbackYield \/ CallbackRaise)

\* The lifecycle with meta-listeners: callbacks are registered and
\* unregistered while listeners subscribe and cancel.
NextListeners ==
    \/ \E c \in FireCallbacks : nextReg <= MaxFireRegistrations /\ Register(c)
    \/ \E c \in FireCallbacks : Unregister(c)
    \/ UnregisterAll
    \/ NotifyStep
    \/ UnregisterAllNext
    \/ NotifyEnd
    \/ \E l \in Listeners : OnRegistered(l)
    \/ \E l \in Listeners : OnUnregistered(l)
    \/ \E l \in Listeners : CancelOnRegistered(l)
    \/ \E l \in Listeners : CancelOnUnregistered(l)

SpecListeners == InitCore /\ [][NextListeners]_vars

\* The same with on-registered listeners only.
NextOnRegistered ==
    \/ \E c \in FireCallbacks : nextReg <= MaxFireRegistrations /\ Register(c)
    \/ \E c \in FireCallbacks : Unregister(c)
    \/ NotifyStep
    \/ NotifyEnd
    \/ \E l \in Listeners : OnRegistered(l)
    \/ \E l \in Listeners : CancelOnRegistered(l)

SpecOnRegistered == InitCore /\ [][NextOnRegistered]_vars

\* The same with on-unregistered listeners only, and with a fire after each
\* unregisterAll.
NextOnUnregistered ==
    \/ \E c \in FireCallbacks : nextReg <= MaxFireRegistrations /\ Register(c)
    \/ \E c \in FireCallbacks : Unregister(c)
    \/ UnregisterAll
    \/ NotifyStep
    \/ UnregisterAllNext
    \/ NotifyEnd
    \/ \E l \in Listeners : OnUnregistered(l)
    \/ \E l \in Listeners : CancelOnUnregistered(l)
    \/ last.op = "unregisterAll" /\ FireBegin
    \/ FireEnd

SpecOnUnregistered == InitCore /\ [][NextOnUnregistered]_vars

InitNet == CoreInit /\ LifecycleInit("Concurrent") /\ NetInit

SpecNet == InitNet /\ [][NextNet]_vars

\* NeutronStart (src/src/lifecycle.ts): the Concurrent lifecycle that the
\* lifecycle module makes and hands to Neutron.onStart.  The callback
\* () => NeutronStart.fire() is the first of the start callbacks.
NeutronStartCallback == 1

\* The module body: new NeutronLifecycle(Concurrent), then
\* Neutron.onStart(() => NeutronStart.fire()), which queues the callback or,
\* when Neutron has started, spawns it, and then it calls fire at once.
LoadLifecycle ==
    /\ passed[NeutronStartCallback] = 0
    /\ OnStartCall(NeutronStartCallback)
    /\ IF started
       THEN FireCall
       ELSE /\ last' = Outcome("onStart", 0, "queued", 0)
            /\ UNCHANGED <<lcVars, mlVars>>
    /\ UNCHANGED <<netVars, evVars, fnVars, decVars, subVars>>

\* start spawns the callback of the lifecycle module: it calls fire at once.
StartSpawnsWithoutFire ==
    /\ SpawnCallback
    /\ awaitCallbacks[startIdx] = NeutronStartCallback
    /\ UNCHANGED <<last, lcVars, mlVars, netVars, evVars, fnVars, decVars, subVars>>

StartSpawnNeutronStart ==
    /\ SpawnCallback
    /\ awaitCallbacks[startIdx] = NeutronStartCallback
    /\ FireCall
    /\ UNCHANGED <<netVars, evVars, fnVars, decVars, subVars>>

\* start, and the code that calls into the core, run while no fire of
\* NeutronStart is under way and none of its callbacks is executing.
StartHasControl == firePc = "idle" /\ running = 0

\* start spawns a callback other than the lifecycle module's.
StartSpawnOther ==
    /\ StartHasControl
    /\ SpawnCallback
    /\ awaitCallbacks[startIdx] # NeutronStartCallback
    /\ UNCHANGED last
    /\ OnlyCore

\* Neutron with the lifecycle module: callbacks are registered on
\* NeutronStart once the module is loaded, by top-level code or by a
\* callback that is executing; a callback that has yielded is resumed when
\* start no longer holds the running thread.
NextNeutronStart ==
    \/ LoadLifecycle
    \/ \E cb \in StartCallbacks \ {NeutronStartCallback} : StartHasControl /\ OnStart(cb)
    \/ StartHasControl /\ StartCall
    \/ StartSpawnNeutronStart
    \/ StartSpawnOther
    \/ StartHasControl /\ StartCallbacksDone
    \/ StartHasControl /\ StartClear
    \/ \E c \in FireCallbacks :
          /\ passed[NeutronStartCallback] = 1
          /\ startPc = "idle" \/ running # 0
          /\ nextReg <= MaxFireRegistrations
          /\ Register(c)
    \/ FireStep
    \/ FireEnd
    \/ CallbackReturn
    \/ CallbackYield
    \/ CallbackRaise
    \/ \E r \in 1..MaxRegistrations : startPc = "idle" /\ CallbackResume(r)

\* The scheduling: start and fire keep going while they hold the running
\* thread, and a callback that executes sooner or later returns, yields or
\* raises.  Nothing says that a callback that has yielded is ever resumed.
SpecNeutronStart ==
    /\ InitCore
    /\ [][NextNeutronStart]_vars
    /\ WF_vars(StartSpawnNeutronStart)
    /\ WF_vars(StartSpawnOther)
    /\ WF_vars(StartHasControl /\ StartCallbacksDone)
    /\ WF_vars(StartHasControl /\ StartClear)
    /\ WF_vars(FireStep)
    /\ WF_vars(FireEnd)
    /\ WF_vars(CallbackReturn \/ CallbackYield \/ CallbackRaise)

\* Provider classes with a method bound to one lifecycle, Concurrent as
\* NeutronStart is, or Series.
InitDecorator ==
    /\ CoreInit
    /\ \E b \in {"Series", "Concurrent"} : LifecycleInit(b)
    /\ NetIdle

SpecDecorator == InitDecorator /\ [][NextDecorator]_vars

\* Listeners subscribe, cancel, and are notified of registrations.
NextSubscriptions ==
    \/ \E list \in {"registered", "unregistered"}, l \in Listeners : Subscribe(list, l)
    \/ \E k \in 1..MaxSubscriptions : CallCancel(k)
    \/ \E c \in FireCallbacks : nextReg <= MaxFireRegistrations /\ Register(c)
    \/ NotifyStep
    \/ NotifyEnd

SpecSubscriptions == InitCore /\ [][NextSubscriptions]_vars

\* One net function, its two machines and one calling task.
SpecFunctions == InitCore /\ [][NextFunctions]_vars

\* The events of one server and the players that come and go.
SpecEvents == InitCore /\ [][NextEvents]_vars

\* The seed exchange between one server and one client, with the endpoints
\* all declared alike.
InitSeed == CoreInit /\ LifecycleInit("Concurrent") /\ NetIdle

SpecSeed == InitSeed /\ [][NextNet]_vars

\* The namer of one server outside Studio, where every endpoint gets a
\* generated name whether or not a name argument is given.
InitNamer ==
    /\ CoreInit
    /\ LifecycleInit("Concurrent")
    /\ NetInit
    /\ ~isStudio

NextNamer ==
    \/ \E s \in Seeds : ServerLoad(s)
    \/ \E e \in Endpoints : ServerConstruct(e)

SpecNamer == InitNamer /\ [][NextNamer]_vars

----------------------------------------------------------------------------
\* Claims about the lifecycle

IsAscending(seq) == \A i, j \in 1..Len(seq) : i < j => seq[i] < seq[j]

\* C1: after any sequence of register and unregister calls on a Series
\* lifecycle, a fire (during which nothing is registered or unregistered)
\* invokes exactly the entries still registered, in the order in which they
\* were registered.  No callback is ever registered twice at a time.
C1_SeriesFiresInRegistrationOrder ==
    (behavior = "Series" /\ last.op = "fire" /\ last.kind = "returned" /\ ~mutated
     /\ ~dupSeen) =>
        /\ {invoked[i] : i \in 1..Len(invoked)} = Regs(callbacks)
        /\ Len(invoked) = Len(callbacks)
        /\ IsAscending(invoked)

\* C2: when callbacks invoked by a fire register or unregister, every entry
\* that was registered when the fire began and is still registered when it
\* returns has been invoked exactly once by it, and no entry more than once.
\* No callback is ever registered twice at a time.
C2_MutationDuringFireKeepsIteration ==
    (last.op = "fire" /\ last.kind = "returned" /\ ~dupSeen) =>
        /\ \A r \in fireStart \cap Regs(callbacks) : Count(invoked, r) = 1
        /\ \A r \in 1..MaxRegistrations : Count(invoked, r) <= 1

C12_SeriesOneAtATime ==
    /\ [](behavior = "Series" /\ (running # 0 \/ suspended # {}) =>
            /\ firePc = "iter"
            /\ invoked # <<>>
            /\ suspended \cup ({running} \ {0}) = {invoked[Len(invoked)]})
    /\ [][behavior = "Series" /\ Len(invoked') > Len(invoked) =>
            running = 0 /\ suspended = {}]_vars
    /\ [][behavior = "Series" /\ firePc = "iter" /\ firePc' = "idle"
            /\ last'.kind = "returned" => running = 0 /\ suspended = {}]_vars

\* A Series fire is held up by a suspended callback while another callback
\* is still to be invoked.
C12_Witness ==
    /\ behavior = "Series"
    /\ firePc = "iter"
    /\ suspended # {}
    /\ fireIdx <= Len(callbacks)

\* What a listener loop over the array ls has invoked for callback c when
\* nothing disturbs it, and what unregisterAll's two loops have for the
\* entries cbs.
Announced(ls, c) == [i \in 1..Len(ls) |-> <<ls[i], c>>]

AnnouncedAll(cbs, ls) ==
    [k \in 1..(Len(cbs) * Len(ls)) |->
        <<ls[((k - 1) % Len(ls)) + 1], cbs[((k - 1) \div Len(ls)) + 1].callback>>]

Undisturbed == ~cancelledInFlight /\ ~subscribedInFlight

IsUnregisterStep ==
    /\ notifyPc = "idle"
    /\ last'.op = "unregister"
    /\ callbacks' # callbacks \/ last' # last
    /\ UNCHANGED <<onRegisteredCallbacks, onUnregisteredCallbacks>>

C16_CancelKeepsNotificationInFlight ==
    [][(notifyPc \in {"registered", "unregistered"} /\ notifyPc' = "idle"
        /\ ~subscribedInFlight) =>
            (\A l \in Listeners :
                Count(NotifyList, l) <= Cardinality({i \in 1..Len(notified) :
                                                        notified[i][1] = l}))]_vars

C25_ReceiverResolvedAtInvocation ==
    /\ [][(BoundCallbackRun \/ \E a \in BoundArgs : ListenerCatchUp(a)) =>
            LET c == methodCall'.class
            IN  IF provider[c] = 0
                THEN methodCall'.kind = "raised"
                ELSE /\ methodCall'.kind = "called"
                     /\ methodCall'.receiver = provider[c]
                     /\ methodCall'.args = methodCall'.passed]_vars
    /\ [][BoundCallbackRun =>
            /\ methodCall'.class = CallbackOfReg(running)
            /\ methodCall'.passed = fireArgs]_vars

\* A bound callback registered before its class had an instance was invoked
\* by fire once the instance was stored, and the method was called with it
\* and with arguments.
C25_Witness ==
    /\ methodCall.kind = "called"
    /\ methodCall.receiver # 0
    /\ methodCall.args # <<>>
    /\ firePc = "iter"
    /\ \E i \in 1..Len(callbacks) :
           /\ callbacks[i].callback = methodCall.class
           /\ callbacks[i].reg = 1
    /\ last.op = "invoke"

\* C26: a cleanup function cancels the subscription that returned it and no
\* other, and calling it again changes nothing: each array holds a listener
\* as many times as there are subscriptions of it in that array whose
\* cleanup function has not been called.
C26_CancelOnlyOwnSubscription ==
    \A list \in {"registered", "unregistered"}, l \in Listeners :
        Count(ListenersOf(list), l) =
            Cardinality({k \in 1..Len(subs) :
                            /\ subs[k].list = list
                            /\ subs[k].listener = l
                            /\ subs[k].cancels = 0})

\* C27: a callback that raises during a Concurrent fire leaves the loop of
\* fire where it is, so that the next entry is invoked, and fire never raises;
\* a callback that raises during a Series fire ends the fire with that error,
\* and no further callback is invoked by it.
C27_ErrorIsolationByPolicy ==
    /\ [][(behavior = "Concurrent" /\ CallbackRaise) =>
            /\ firePc' = firePc
            /\ fireIdx' = fireIdx
            /\ invoked' = invoked
            /\ last'.op = "callback"]_vars
    /\ [](behavior = "Concurrent" => ~(last.op = "fire" /\ last.kind = "raised"))
    /\ []((/\ behavior = "Concurrent"
           /\ firePc = "iter"
           /\ running = 0
           /\ fireIdx <= Len(callbacks)) => ENABLED FireStep)
    /\ [][(behavior = "Series" /\ CallbackRaise) =>
            /\ firePc' = "idle"
            /\ last' = Outcome("fire", 0, "raised", running)
            /\ invoked' = invoked]_vars
    /\ [][Len(invoked') > Len(invoked) => (firePc = "iter" /\ firePc' = "iter")]_vars

\* A callback has just raised in a Concurrent fire that has a further entry
\* to invoke.
C27_Witness ==
    /\ behavior = "Concurrent"
    /\ firePc = "iter"
    /\ last.op = "callback" /\ last.kind = "raised"
    /\ invoked # <<>>
    /\ fireIdx <= Len(callbacks)

----------------------------------------------------------------------------
\* Claims about the endpoint namer

\* C3: in one process, no two constructed endpoints (of any of the four
\* classes, with a generated or an explicit name) have the same final wire
\* identifier.
C3_WireNamesUnique ==
    \A e1, e2 \in Endpoints :
        (e1 # e2 /\ sFinal[e1] # <<>> /\ sFinal[e2] # <<>>) => sFinal[e1] # sFinal[e2]

\* C4: for every declared endpoint constructed on both sides, the client's
\* wire identifier equals the server's, whatever the declared endpoints and
\* the order in which each side constructs them.
C4_ClientServerNamesAgree ==
    \A e \in Endpoints :
        (sFinal[e] # <<>> /\ cFinal[e] # <<>>) => cFinal[e] = sFinal[e]

\* The base identifier of endpoint e on the server.
ServerBase(e) == BaseName(serverSeed + ByteSum(decl[e].data))

\* C17: with the seed fixed, an endpoint constructed while no constructed
\* endpoint has its base identifier is named by the base identifier; one
\* constructed while n >= 1 constructed endpoints have it is named by the
\* base identifier followed by the decimal digits of n - 1: 0 at the first
\* collision, then 1, 2, ...
C17_CollisionSuffixesCountUp ==
    [][\A e \in Endpoints :
          (sFinal[e] = <<>> /\ sFinal'[e] # <<>>) =>
              LET n == Cardinality({o \in Endpoints :
                                       sFinal[o] # <<>> /\ ServerBase(o) = ServerBase(e)})
              IN  sFinal'[e] = <<114, 47>> \o
                      (IF n = 0 THEN ServerBase(e) ELSE ServerBase(e) \o ToDecimal(n - 1))]_vars

\* Three endpoints with one base identifier are named by it, by it with
\* suffix 0 and by it with suffix 1.
C17_Witness ==
    \E e1, e2, e3 \in Endpoints :
        /\ sFinal[e1] = <<114, 47>> \o ServerBase(e1)
        /\ sFinal[e2] = sFinal[e1] \o <<48>>
        /\ sFinal[e3] = sFinal[e1] \o <<49>>

\* C18: the client names an endpoint only after awaitSeedAttr has returned;
\* awaitSeedAttr returns only when it finds the attribute, and until then it
\* polls; the seed it returns, which every name derived on the client is
\* computed from, is the server's seed; the server sets the attribute once.
C18_SeedExchange ==
    /\ [][cFinal' # cFinal => clientPc = "ready" /\ clientSeed # 0]_vars
    /\ [][\A e \in Endpoints :
            cFinal'[e] # cFinal[e] =>
                cFinal'[e] = WireName(RemoteName(cNames, serverSeed, decl[e]))]_vars
    /\ [][clientPc # "ready" /\ clientPc' = "ready" =>
            attrValue # 0 /\ clientSeed' = serverSeed]_vars
    /\ [](clientPc = "polling" /\ attrValue = 0 =>
            ENABLED ClientPoll /\ ~ENABLED ClientReadSeed)
    /\ [](clientPc = "ready" => clientSeed = serverSeed /\ serverSeed # 0)
    /\ [](publishes = IF serverSeed = 0 THEN 0 ELSE 1)

\* The client polled before the attribute was there, then read the seed and
\* named an endpoint.
C18_Witness ==
    /\ waited
    /\ clientPc = "ready"
    /\ \E e \in Endpoints : cFinal[e] # <<>>

\* C20: a server-side fire of a NetEvent or an UnreliableNetEvent calls
\* FireClient once for the player given, or once for each player of the
\* array given, and for no other player.
C20_FireReachesGivenClients ==
    fired.event # "none" =>
        \A p \in AllPlayers :
            delivered[p] = IF p \in fired.target.players THEN 1 ELSE 0

----------------------------------------------------------------------------
\* Claims about the net functions

\* C21: of a DangerousNetFunction, server.invoke(player, ...args) called on
\* the server sends the client an invocation whose handler receives the
\* argument list args, and client.handle(h) called on the client installs h
\* as the callback that answers the invocations coming from the server.
C21_DangerousApisOnTheirMachines ==
    /\ (/\ fnClass = "DangerousNetFunction"
        /\ fnCall.op = "invoke"
        /\ fnCall.machine = "server"
        /\ fnCall.api = "server"
        /\ fnCall.withPlayer)
           => /\ invocation.status # "none"
              /\ invocation.dest = "client"
              /\ invocation.received = Received(FALSE, FALSE, fnCall.args)
    /\ (/\ fnClass = "DangerousNetFunction"
        /\ fnCall.op = "handle"
        /\ fnCall.machine = "client"
        /\ fnCall.api = "client")
           => fnCallbacks["client"].OnClientInvoke = fnCall.handler

\* C24: the task that calls invoke of a NetFunction or a DangerousNetFunction
\* does not proceed past the call while the remote handler has not returned:
\* as long as the invocation is on its way or being handled, the calling
\* task is not running.
C24_InvokeSuspendsCaller ==
    invocation.status \in {"pending", "handling"} => callerPc \notin {"past", "resumed"}

----------------------------------------------------------------------------
\* Claims about the core

C6_DeclareAfterStartRaises ==
    /\ [][\A c \in Classes : (started /\ ProviderCall(c)) =>
            (last'.kind = "raised" /\ provider' = provider /\ instOf' = instOf
             /\ provPc'[c] = "failed")]_vars
    /\ [](\A c \in Classes : (provPc[c] = "failed" /\ instOf[c] = 0) =>
            (provider[c] = 0 /\ GetResult(c).kind = "raised"))

\* A declaration was rejected after start, and a later get for the class raised.
C6_Witness ==
    /\ started
    /\ last.op = "get" /\ last.kind = "raised"
    /\ provPc[last.arg] = "failed" /\ instOf[last.arg] = 0

C8_AwaitStartResumedOnce ==
    /\ [][\A t \in Threads : (tstate[t] = "parked" /\ tstate'[t] # "parked") =>
            (started /\ startPc = "threads" /\ resumes'[t] = resumes[t] + 1)]_vars
    /\ [](\A t \in Threads : /\ resumes[t] <= parks[t]
                             /\ (tstate[t] = "parked") = (resumes[t] < parks[t])
                             /\ (tstate[t] = "parked" /\ startPc = "idle") => ~started)
    /\ [][\A t \in Threads : resumes'[t] # resumes[t] => tstate[t] = "parked"]_vars
    /\ [][\A t \in Threads : (started /\ AwaitStart(t)) =>
            (tstate'[t] = "ready" /\ UNCHANGED coreState)]_vars
    /\ [][\A t \in Threads : (~started /\ AwaitStart(t)) => tstate'[t] = "parked"]_vars

\* A thread parked before start was resumed, and a later start call was made.
C8_Witness ==
    /\ \E t \in Threads : parks[t] = 1 /\ resumes[t] = 1 /\ tstate[t] = "ready"
    /\ startPc = "idle"
    /\ last.op = "start" /\ last.kind = "noop"

\* C9: every callback given to onStart is spawned exactly once and only with
\* the flag set: at once when started, otherwise by the first start.
C9_OnStartRunsOnce ==
    /\ [](\A cb \in StartCallbacks :
            /\ ran[cb] <= passed[cb]
            /\ ran[cb] > 0 => started
            /\ ~started => Count(awaitCallbacks, cb) = passed[cb]
            /\ startPc = "callbacks" =>
                 passed[cb] - ran[cb] =
                     Count(SubSeq(awaitCallbacks, startIdx, Len(awaitCallbacks)), cb)
            /\ (started /\ startPc # "callbacks") => ran[cb] = passed[cb])
    /\ [][\A cb \in StartCallbacks : (started /\ OnStart(cb)) =>
            (ran'[cb] = ran[cb] + 1 /\ awaitCallbacks' = awaitCallbacks)]_vars
    /\ [][\A cb \in StartCallbacks : (~started /\ OnStart(cb)) =>
            (ran' = ran /\ awaitCallbacks' = Append(awaitCallbacks, cb))]_vars

\* onStart was called from inside a task run by start, after a queued callback
\* had been spawned by that start.
C9_Witness ==
    /\ startPc # "idle"
    /\ last.op = "onStart" /\ last.kind = "spawned"
    /\ \E cb \in StartCallbacks : ran[cb] = 2 /\ passed[cb] = 2

\* C10: only the first start flips the flag and runs the queues, which are
\* empty once it has returned; a later call, also a re-entrant one, changes
\* nothing and spawns or resumes nothing.
C10_StartIdempotent ==
    /\ [][(started /\ StartCall) => UNCHANGED coreState]_vars
    /\ [][(~started /\ StartCall) => (started' /\ startPc' = "callbacks")]_vars
    /\ [][started => started']_vars
    /\ [][(startPc # "idle" /\ startPc' # "idle") =>
            (awaitCallbacks' = awaitCallbacks /\ awaitStartThreads' = awaitStartThreads)]_vars
    /\ []((started /\ startPc = "idle") =>
            (awaitCallbacks = <<>> /\ awaitStartThreads = <<>>))
    /\ [](\A cb \in StartCallbacks : ran[cb] <= passed[cb])
    /\ [](\A t \in Threads : resumes[t] <= parks[t])

\* A re-entrant start call was made while the first start was still running
\* its queue.
C10_Witness ==
    /\ startPc = "callbacks" /\ startIdx > 1
    /\ last.op = "start" /\ last.kind = "noop"

\* C22: a call of Neutron.start() made when Neutron has already been
\* started raises an error.
C22_SecondStartRaises ==
    [][(started /\ StartCall) => last'.kind = "raised"]_vars

\* C23: the instance of a provider class is created once Neutron is started:
\* as long as Neutron.start() has not been called, no instance of a declared
\* class has been constructed.
C23_InstanceCreatedAtStart ==
    ~started => \A c \in Classes : provPc[c] # "undeclared" => instOf[c] = 0

====
